---- MODULE Spec2Model ----
(***************************************************************************)
(* Model of custom_components/aidot/switch.py: the device-type classifier  *)
(* _is_switch_device, the reconciler add_entities set up by                *)
(* async_setup_entry, and the AidotSwitch entity adapter.                  *)
(*                                                                         *)
(* Four specifications share the variables:                                *)
(*   SpecClassifier  the classifier applied to bounded type strings        *)
(*   Spec            the reconciler against a changing coordinator         *)
(*   SpecSwitch      one AidotSwitch entity and its device coordinator     *)
(*   SpecMetadata    the manufacturer/model split of AidotSwitch.__init__  *)
(*                                                                         *)
(* Python strings are sequences of one-character strings.                  *)
(***************************************************************************)
EXTENDS Integers, Sequences, FiniteSets, TLC

\* ------------------------------------------------------------- bounds
\* Number of device ids the coordinator registry can hold.
NumDevices == 2
\* Type strings of the classifier specification are built from at most this
\* many tokens of TypeTokens.
MaxTokens == 3
\* Commands issued to the device client of one entity.
MaxCalls == 2

Devices == 1..NumDevices

\* ------------------------------------------------------------ strings
\* The host platform's integration domain (DOMAIN of const.py) and entity domain.
const_DOMAIN == "aidot"
SWITCH_DOMAIN == "switch"

UpperLetters ==
    <<"A","B","C","D","E","F","G","H","I","J","K","L","M",
      "N","O","P","Q","R","S","T","U","V","W","X","Y","Z">>
LowerLetters ==
    <<"a","b","c","d","e","f","g","h","i","j","k","l","m",
      "n","o","p","q","r","s","t","u","v","w","x","y","z">>

\* str.lower() on one character: an upper-case letter maps to its lower-case
\* letter, every other character to itself.
char_lower(c) ==
    IF \E i \in 1..Len(UpperLetters) : UpperLetters[i] = c
    THEN LowerLetters[CHOOSE i \in 1..Len(UpperLetters) : UpperLetters[i] = c]
    ELSE c

\* str.lower()
str_lower(s) == [i \in 1..Len(s) |-> char_lower(s[i])]

\* Python's `sub in s`: scan the start positions left to right.
RECURSIVE find_from(_, _, _)
find_from(sub, s, i) ==
    IF i + Len(sub) - 1 > Len(s) THEN FALSE
    ELSE IF SubSeq(s, i, i + Len(sub) - 1) = sub THEN TRUE
    ELSE find_from(sub, s, i + 1)

str_in(sub, s) == find_from(sub, s, 1)

W_plug == <<"p","l","u","g">>
W_switch == <<"s","w","i","t","c","h">>
W_light == <<"l","i","g","h","t">>
W_bulb == <<"b","u","l","b">>
EmptyStr == << >>

\* ------------------------------------------------------------ variables
VARIABLES
    \* coordinator registry (external collaborator)
    device_coordinators,  \* set of device ids that have a device coordinator
    device_types,         \* partial map device id -> type string
    \* async_setup_entry closure
    listener,             \* TRUE once add_entities is a coordinator listener
    lists_added,          \* the tracked set
    \* host platform
    registry,             \* entity registry: set of entries
    platform_entity,      \* per unique id, the AidotSwitch instance the host
                          \* platform holds (0: none)
    status_fresh_cb,      \* per device client, the AidotSwitch instance whose
                          \* callback set_status_fresh_cb stored last (0: none)
    last_pass,            \* what the last run of add_entities did
    \* classifier specification
    cl_result,            \* "unset" or the classifier's boolean
    \* one AidotSwitch entity and its coordinator
    data,                 \* coordinator.data: [online, on]
    attr_available,       \* _attr_available
    attr_is_on,           \* _attr_is_on
    running,              \* the command handler that is between its
                          \* optimistic writes and its client call
    calls,                \* commands handed to the device client
    last_event,           \* the entity's handler (or step of one) that ran last
    \* display metadata of AidotSwitch.__init__
    model_id,             \* device_client.info.model_id
    device_info           \* manufacturer and model of _attr_device_info

vars == <<device_coordinators, device_types, listener, lists_added, registry,
          platform_entity, status_fresh_cb, last_pass, cl_result, data,
          attr_available, attr_is_on, running, calls, last_event, model_id,
          device_info>>

reconciler_vars == <<device_coordinators, device_types, listener, lists_added,
                     registry, platform_entity, status_fresh_cb, last_pass>>
pure_vars == <<cl_result, model_id, device_info>>
switch_vars == <<data, attr_available, attr_is_on, running, calls, last_event>>

\* The display metadata before __init__ has derived it.
NoInfo == [set |-> FALSE, manufacturer |-> EmptyStr, model |-> EmptyStr]

\* ------------------------------------------------------------ classifier
\* coordinator.device_types.get(device_id, "")
device_types_get(types, device_id) ==
    IF device_id \in DOMAIN types THEN types[device_id] ELSE EmptyStr

\* Mutant of is_switch_type: the keywords are searched in the string as given.
is_switch_type_case_sensitive(device_type) ==
    LET is_plug == str_in(W_plug, device_type)
        is_switch == str_in(W_switch, device_type)
        is_light == str_in(W_light, device_type) \/ str_in(W_bulb, device_type)
    IN (is_plug \/ is_switch) /\ ~is_light

\* _is_switch_device, given the type string looked up
is_switch_type(device_type) ==
    LET is_plug == str_in(W_plug, str_lower(device_type))
        is_switch == str_in(W_switch, str_lower(device_type))
        is_light == str_in(W_light, str_lower(device_type))
                    \/ str_in(W_bulb, str_lower(device_type))
    IN (is_plug \/ is_switch) /\ ~is_light

_is_switch_device(types, device_id) ==
    is_switch_type(device_types_get(types, device_id))

\* Mutant of device_types_get_raises: the lookup is device_types[device_id],
\* which raises KeyError for an id with no entry.
device_types_getitem_raises(types, device_id) == device_id \notin DOMAIN types

\* Whether the lookup of line 22 raises: dict.get with a default never does.
device_types_get_raises(types, device_id) == FALSE

\* ------------------------------------------------------------ host platform
\* device_client.device_id and device_client.info.dev_id: the device client
\* reports one identifier under both names.
device_id_of(d) == d
info_dev_id(d) == d

\* An entity registry entry; the registry maps (domain, platform, unique_id)
\* to at most one entry, so the entry stands for its entity id.
RegistryEntry(domain, platform, unique_id) ==
    [domain |-> domain, platform |-> platform, unique_id |-> unique_id]

\* Entries of other platforms and integrations that the reconciler never owns.
UnrelatedEntries ==
    { RegistryEntry("light", const_DOMAIN, 1),
      RegistryEntry(SWITCH_DOMAIN, "other_integration", 1) }

\* entity_registry.async_get_entity_id(domain, platform, unique_id):
\* the set holding the entry found, empty for None.
async_get_entity_id(reg, domain, platform, unique_id) ==
    { e \in reg : e.domain = domain /\ e.platform = platform
                  /\ e.unique_id = unique_id }

\* entity_registry.async_remove(entity)
async_remove(reg, entity) == reg \ {entity}

\* AidotSwitch.__init__ as far as the platform sees it: the unique id.
AidotSwitch(device_id) == [unique_id |-> info_dev_id(device_id)]

\* async_add_entities(entities): the platform registers each entity under
\* (switch, DOMAIN, unique id); an entity whose unique id is already
\* registered is refused and the entry stays as it is.
async_add_entities(reg, entities) ==
    reg \cup { RegistryEntry(SWITCH_DOMAIN, const_DOMAIN, e.unique_id) :
                 e \in entities }

\* AidotSwitch instances of one device are told apart by a name. The
\* callback slot is overwritten when a new object is constructed, so the
\* only other reference to an instance of the device is the platform's: a
\* new object gets the least name the platform's entity does not have.
InstanceNames == 1..2
NoInstance == [d \in Devices |-> 0]

new_instance(held, cb, d) ==
    CHOOSE k \in InstanceNames :
        /\ k # held[d]
        /\ \A j \in InstanceNames : j # held[d] => k <= j

\* AidotSwitch.__init__, line 98, for every device of ids: the device
\* client's single callback slot is set to the new instance's callback.
set_status_fresh_cb(held, cb, ids) ==
    [d \in Devices |-> IF d \in ids THEN new_instance(held, cb, d) ELSE cb[d]]

\* async_add_entities(entities), the platform's entities: a new instance is
\* taken for a unique id the platform holds no entity for, and refused
\* otherwise.
platform_add(held, cb, ids) ==
    [u \in Devices |->
        IF held[u] = 0 /\ \E d \in ids : info_dev_id(d) = u
        THEN new_instance(held, cb, CHOOSE d \in ids : info_dev_id(d) = u)
        ELSE held[u]]

\* entity_registry.async_remove(entity), the platform's entities: the entity
\* of a removed entry is removed from the platform.
platform_remove(held, gone) ==
    [u \in Devices |-> IF \E e \in gone : e.unique_id = u THEN 0 ELSE held[u]]

\* ------------------------------------------------------------ reconciler
\* Mutant of new_lists: the comprehension has no classifier filter.
new_lists_unfiltered(coords, types) == { device_id_of(d) : d \in coords }

\* lines 45-49
new_lists(coords, types) ==
    { device_id_of(d) : d \in { c \in coords :
                                  _is_switch_device(types, device_id_of(c)) } }

\* line 54: the ids an AidotSwitch is constructed for when the add branch runs
devices_to_construct(new, added) == new

\* Mutant of removed_device_ids: every tracked id is treated as removed.
removed_device_ids_all(added, new) == added

\* line 58
removed_device_ids(added, new) == added \ new

\* Mutant of entries_to_remove: the lookup names the light domain.
entries_to_remove_wrong_domain(reg, ids) ==
    UNION { async_get_entity_id(reg, "light", const_DOMAIN, device_id) :
            device_id \in ids }

\* lines 59-64: the entries the removal loop removes
entries_to_remove(reg, ids) ==
    UNION { async_get_entity_id(reg, SWITCH_DOMAIN, const_DOMAIN, device_id) :
            device_id \in ids }

NoPass ==
    [ran |-> FALSE, calls |-> 0, handed |-> {}, removed |-> {},
     qualifying |-> {}, error |-> "none"]

\* add_entities (lines 41-65), one run of the callback
add_entities ==
    IF \E d \in device_coordinators :
            device_types_get_raises(device_types, device_id_of(d))
    THEN /\ last_pass' = [NoPass EXCEPT !.ran = TRUE, !.error = "KeyError"]
         /\ UNCHANGED <<lists_added, registry, platform_entity, status_fresh_cb>>
    ELSE LET new == new_lists(device_coordinators, device_types) IN
         IF new \ lists_added # {}
         THEN LET ids == devices_to_construct(new, lists_added) IN
              /\ registry' = async_add_entities(registry,
                                  { AidotSwitch(device_id) : device_id \in ids })
              /\ status_fresh_cb' =
                    set_status_fresh_cb(platform_entity, status_fresh_cb, ids)
              /\ platform_entity' =
                    platform_add(platform_entity, status_fresh_cb, ids)
              /\ lists_added' = lists_added \cup new
              /\ last_pass' = [NoPass EXCEPT !.ran = TRUE, !.calls = 1,
                                  !.handed = ids, !.qualifying = new]
         ELSE IF lists_added \ new # {}
         THEN LET ids == removed_device_ids(lists_added, new)
                  gone == entries_to_remove(registry, ids) IN
              /\ registry' = registry \ gone
              /\ platform_entity' = platform_remove(platform_entity, gone)
              /\ UNCHANGED status_fresh_cb
              /\ lists_added' = lists_added \ ids
              /\ last_pass' = [NoPass EXCEPT !.ran = TRUE, !.removed = gone,
                                  !.qualifying = new]
         ELSE /\ last_pass' = [NoPass EXCEPT !.ran = TRUE, !.qualifying = new]
              /\ UNCHANGED <<lists_added, registry, platform_entity,
                             status_fresh_cb>>

\* Mutant of async_setup_entry: the listener is registered and the first
\* pass (line 68) is left to the next coordinator notification.
async_setup_entry_listener_only ==
    /\ ~listener
    /\ listener' = TRUE
    /\ UNCHANGED <<device_coordinators, device_types, lists_added, registry,
                   platform_entity, status_fresh_cb, last_pass, pure_vars,
                   switch_vars>>

\* async_setup_entry (lines 32-68): register the listener, run the first pass
async_setup_entry ==
    /\ ~listener
    /\ listener' = TRUE
    /\ add_entities
    /\ UNCHANGED <<device_coordinators, device_types, pure_vars, switch_vars>>

\* The coordinator notifies its listeners: add_entities runs.
coordinator_notify ==
    /\ listener
    /\ add_entities
    /\ UNCHANGED <<listener, device_coordinators, device_types, pure_vars,
                   switch_vars>>

\* ----------------------------------------------- coordinator registry changes
S_SmartPlug == <<"S","m","a","r","t"," ","P","l","u","g">>
S_RGBLightStrip == <<"R","G","B"," ","L","i","g","h","t"," ","S","t","r","i","p">>
S_switch == W_switch
\* The type strings the device catalog reports in the reconciler specification.
CatalogTypes == { S_SmartPlug, S_RGBLightStrip, S_switch }

coordinator_device_added(d) ==
    /\ d \notin device_coordinators
    /\ device_coordinators' = device_coordinators \cup {d}
    /\ last_pass' = NoPass
    /\ UNCHANGED <<device_types, listener, lists_added, registry,
                   platform_entity, status_fresh_cb, pure_vars, switch_vars>>

\* A device leaves the coordinator registry, its type entry with it.
coordinator_device_removed(d) ==
    /\ d \in device_coordinators
    /\ device_coordinators' = device_coordinators \ {d}
    /\ device_types' = [x \in DOMAIN device_types \ {d} |-> device_types[x]]
    /\ last_pass' = NoPass
    /\ UNCHANGED <<listener, lists_added, registry,
                   platform_entity, status_fresh_cb, pure_vars, switch_vars>>

coordinator_type_set(d, t) ==
    /\ d \in device_coordinators
    /\ device_types_get(device_types, d) # t \/ d \notin DOMAIN device_types
    /\ device_types' = [x \in DOMAIN device_types \cup {d} |->
                           IF x = d THEN t ELSE device_types[x]]
    /\ last_pass' = NoPass
    /\ UNCHANGED <<device_coordinators, listener, lists_added, registry,
                   platform_entity, status_fresh_cb, pure_vars, switch_vars>>

coordinator_type_cleared(d) ==
    /\ d \in DOMAIN device_types
    /\ device_types' = [x \in DOMAIN device_types \ {d} |-> device_types[x]]
    /\ last_pass' = NoPass
    /\ UNCHANGED <<device_coordinators, listener, lists_added, registry,
                   platform_entity, status_fresh_cb, pure_vars, switch_vars>>

NoTypes == [x \in {} |-> EmptyStr]

SwitchIdle ==
    /\ data = [online |-> FALSE, on |-> FALSE]
    /\ attr_available = FALSE
    /\ attr_is_on = FALSE
    /\ running = "none"
    /\ calls = << >>
    /\ last_event = "__init__"

Init ==
    /\ device_coordinators = {}
    /\ device_types = NoTypes
    /\ listener = FALSE
    /\ lists_added = {}
    /\ registry = UnrelatedEntries
    /\ platform_entity = NoInstance
    /\ status_fresh_cb = NoInstance
    /\ last_pass = NoPass
    /\ cl_result = "unset"
    /\ model_id = EmptyStr
    /\ device_info = NoInfo
    /\ SwitchIdle

Next ==
    \/ async_setup_entry
    \/ coordinator_notify
    \/ \E d \in Devices : coordinator_device_added(d)
    \/ \E d \in Devices : coordinator_device_removed(d)
    \/ \E d \in Devices : \E t \in CatalogTypes : coordinator_type_set(d, t)
    \/ \E d \in Devices : coordinator_type_cleared(d)

Spec == Init /\ [][Next]_vars

\* ------------------------------------------------ classifier specification
T_Smart == <<"S","m","a","r","t"," ">>
T_Plug == <<"P","l","u","g">>
T_plu == <<"p","l","u">>
T_g == <<"g">>
T_SWITCH == <<"S","W","I","T","C","H">>
T_RGB == <<"R","G","B"," ">>
T_Light == <<"L","i","g","h","t">>
T_Strip == <<" ","S","t","r","i","p">>
T_BuLb == <<"B","u","L","b">>
T_li == <<"l","i">>
T_ght == <<"g","h","t">>
\* Pieces the type strings of the classifier specification are built from:
\* the four keywords in several letter cases, whole and split, and filler.
TypeTokens ==
    { T_Smart, T_Plug, T_plu, T_g, W_switch, T_SWITCH, T_RGB, T_Light, T_Strip,
      W_bulb, T_BuLb, T_li, T_ght }

RECURSIVE TypeStrings(_)
TypeStrings(n) ==
    IF n = 0 THEN { EmptyStr }
    ELSE LET shorter == TypeStrings(n - 1) IN
         shorter \cup { s \o t : s \in shorter, t \in TypeTokens }

\* The device id the classifier specification asks about.
ProbeDevice == CHOOSE d \in Devices : \A e \in Devices : d <= e

InitClassifier ==
    /\ device_coordinators = {ProbeDevice}
    /\ device_types \in
            {NoTypes} \cup { [x \in {ProbeDevice} |-> s] : s \in TypeStrings(MaxTokens) }
    /\ listener = FALSE
    /\ lists_added = {}
    /\ registry = UnrelatedEntries
    /\ platform_entity = NoInstance
    /\ status_fresh_cb = NoInstance
    /\ last_pass = NoPass
    /\ cl_result = "unset"
    /\ model_id = EmptyStr
    /\ device_info = NoInfo
    /\ SwitchIdle

\* One call _is_switch_device(coordinator, device_id)
classify ==
    /\ cl_result = "unset"
    /\ cl_result' =
          IF device_types_get_raises(device_types, ProbeDevice) THEN "KeyError"
          ELSE IF _is_switch_device(device_types, ProbeDevice) THEN "True"
          ELSE "False"
    /\ UNCHANGED <<reconciler_vars, switch_vars, model_id, device_info>>

NextClassifier == classify

SpecClassifier == InitClassifier /\ [][NextClassifier]_vars

\* ------------------------------------------------ the AidotSwitch entity
DataValues == [online : BOOLEAN, on : BOOLEAN]

\* Mutant of _update_status: availability is not refreshed.
_update_status_on_only(d) ==
    /\ attr_is_on' = d.on
    /\ UNCHANGED attr_available

\* _update_status (lines 104-109), reading coordinator data d
_update_status(d) ==
    /\ attr_available' = d.online
    /\ attr_is_on' = d.on

\* _handle_coordinator_update (lines 111-115): mirrors the data the
\* coordinator holds when it notifies
_handle_coordinator_update == _update_status(data')

\* The device coordinator stores refreshed data and notifies the entity.
coordinator_refresh(new) ==
    /\ running = "none"
    /\ data' = new
    /\ _handle_coordinator_update
    /\ last_event' = "_handle_coordinator_update"
    /\ UNCHANGED <<running, calls, reconciler_vars, pure_vars>>

\* Mutant of _device_status_callback: a push that finds the device offline
\* also removes the device's switch entry from the entity registry.
_device_status_callback_unregisters ==
    /\ running = "none"
    /\ _update_status(data)
    /\ last_event' = "_device_status_callback"
    /\ registry' = IF data.online THEN registry
                   ELSE registry \ { e \in registry :
                                       e.domain = SWITCH_DOMAIN /\ e.platform = const_DOMAIN }
    /\ UNCHANGED <<data, running, calls, pure_vars, device_coordinators,
                   device_types, listener, lists_added, platform_entity,
                   status_fresh_cb, last_pass>>

\* _device_status_callback (lines 100-102): the status argument is not read
_device_status_callback ==
    /\ running = "none"
    /\ _update_status(data)
    /\ last_event' = "_device_status_callback"
    /\ UNCHANGED <<data, running, calls, reconciler_vars, pure_vars>>

\* Mutant of async_turn_on: the entity's own is_on is left for the next
\* update to set.
async_turn_on_not_optimistic ==
    /\ running = "none"
    /\ Len(calls) < MaxCalls
    /\ data' = [data EXCEPT !.on = TRUE]
    /\ running' = "turn_on"
    /\ last_event' = "async_turn_on"
    /\ UNCHANGED <<attr_is_on, attr_available, calls, reconciler_vars, pure_vars>>

\* Mutant of async_turn_on: only the entity's own is_on is written, the
\* coordinator data is left as it was.
async_turn_on_local_only ==
    /\ running = "none"
    /\ Len(calls) < MaxCalls
    /\ attr_is_on' = TRUE
    /\ running' = "turn_on"
    /\ last_event' = "async_turn_on"
    /\ UNCHANGED <<data, attr_available, calls, reconciler_vars, pure_vars>>

\* async_turn_on, lines 119-120: the optimistic writes
async_turn_on ==
    /\ running = "none"
    /\ Len(calls) < MaxCalls
    /\ data' = [data EXCEPT !.on = TRUE]
    /\ attr_is_on' = TRUE
    /\ running' = "turn_on"
    /\ last_event' = "async_turn_on"
    /\ UNCHANGED <<attr_available, calls, reconciler_vars, pure_vars>>

\* async_turn_off, lines 125-126
async_turn_off ==
    /\ running = "none"
    /\ Len(calls) < MaxCalls
    /\ data' = [data EXCEPT !.on = FALSE]
    /\ attr_is_on' = FALSE
    /\ running' = "turn_off"
    /\ last_event' = "async_turn_off"
    /\ UNCHANGED <<attr_available, calls, reconciler_vars, pure_vars>>

\* Lines 121 and 127: the command goes to the device client and the handler
\* suspends until the client answers. Nothing runs between the optimistic
\* writes and this call.
device_client_call ==
    /\ running # "none"
    /\ calls' = Append(calls, [cmd |-> running, result |-> "pending",
                                exit |-> "suspended"])
    /\ running' = "none"
    /\ last_event' = "device_client_call"
    /\ UNCHANGED <<data, attr_available, attr_is_on, reconciler_vars, pure_vars>>

\* Mutant of command_resolved: the handler writes the commanded state
\* again once the client has acknowledged.
command_resolved_reasserts(i) ==
    /\ running = "none"
    /\ calls[i].result = "pending"
    /\ calls' = [calls EXCEPT ![i] = [@ EXCEPT !.result = "ok",
                                                !.exit = "returned"]]
    /\ last_event' = "command_resolved"
    /\ attr_is_on' = (calls[i].cmd = "turn_on")
    /\ data' = [data EXCEPT !.on = (calls[i].cmd = "turn_on")]
    /\ UNCHANGED <<attr_available, running, reconciler_vars, pure_vars>>

\* The client acknowledges command i: the await returns and the handler ends.
command_resolved(i) ==
    /\ running = "none"
    /\ calls[i].result = "pending"
    /\ calls' = [calls EXCEPT ![i] = [@ EXCEPT !.result = "ok",
                                                !.exit = "returned"]]
    /\ last_event' = "command_resolved"
    /\ UNCHANGED <<data, attr_available, attr_is_on, running, reconciler_vars,
                   pure_vars>>

\* Mutant of command_failed: the handler catches the failure and restores
\* the state opposite to the command.
command_failed_rollback(i) ==
    /\ running = "none"
    /\ calls[i].result = "pending"
    /\ calls' = [calls EXCEPT ![i] = [@ EXCEPT !.result = "error",
                                                !.exit = "returned"]]
    /\ last_event' = "command_failed"
    /\ attr_is_on' = (calls[i].cmd # "turn_on")
    /\ data' = [data EXCEPT !.on = (calls[i].cmd # "turn_on")]
    /\ UNCHANGED <<attr_available, running, reconciler_vars, pure_vars>>

\* The client fails command i: the await raises; lines 121 and 127 sit in no
\* try block, so the exception leaves the handler.
command_failed(i) ==
    /\ running = "none"
    /\ calls[i].result = "pending"
    /\ calls' = [calls EXCEPT ![i] = [@ EXCEPT !.result = "error",
                                                !.exit = "raised"]]
    /\ last_event' = "command_failed"
    /\ UNCHANGED <<data, attr_available, attr_is_on, running, reconciler_vars,
                   pure_vars>>

\* AidotSwitch.__init__ (line 97) seeds the state from the coordinator data.
\* The reconciler is in a state its passes leave: some switches tracked and
\* registered.
InitSwitch ==
    /\ device_coordinators \in SUBSET Devices
    /\ device_types = [d \in device_coordinators |-> S_switch]
    /\ listener = TRUE
    /\ lists_added = device_coordinators
    /\ registry = UnrelatedEntries \cup
                  { RegistryEntry(SWITCH_DOMAIN, const_DOMAIN, info_dev_id(d)) :
                    d \in lists_added }
    /\ platform_entity = [d \in Devices |-> IF d \in lists_added THEN 1 ELSE 0]
    /\ status_fresh_cb = platform_entity
    /\ last_pass = NoPass
    /\ cl_result = "unset"
    /\ model_id = EmptyStr
    /\ device_info = NoInfo
    /\ data \in DataValues
    /\ attr_available = data.online
    /\ attr_is_on = data.on
    /\ running = "none"
    /\ calls = << >>
    /\ last_event = "__init__"

NextSwitch ==
    \/ \E new \in DataValues : coordinator_refresh(new)
    \/ _device_status_callback
    \/ async_turn_on
    \/ async_turn_off
    \/ device_client_call
    \/ \E i \in 1..Len(calls) : command_resolved(i)
    \/ \E i \in 1..Len(calls) : command_failed(i)

SpecSwitch == InitSwitch /\ [][NextSwitch]_vars

\* ------------------------------------------- display metadata of __init__
\* Longest model identifier of the metadata specification.
MaxIdLen == 4
IdChars == {"a", "x", "."}

RECURSIVE IdStrings(_)
IdStrings(n) ==
    IF n = 0 THEN { EmptyStr }
    ELSE LET shorter == IdStrings(n - 1) IN
         shorter \cup { Append(s, c) : s \in shorter, c \in IdChars }

\* s.split(sep)[0]: the characters before the first sep, all of s without one
RECURSIVE split_first_from(_, _, _)
split_first_from(s, sep, i) ==
    IF i > Len(s) THEN s
    ELSE IF s[i] = sep THEN SubSeq(s, 1, i - 1)
    ELSE split_first_from(s, sep, i + 1)

split_first(s, sep) == split_first_from(s, sep, 1)

\* s[n:] for n >= 0
slice_from(s, n) == IF n >= Len(s) THEN EmptyStr ELSE SubSeq(s, n + 1, Len(s))

\* Mutant of derive_model: the slice starts at len(manufacturer).
derive_model_keeps_dot(id, manufacturer) == slice_from(id, Len(manufacturer))

\* line 85
derive_manufacturer(id) == split_first(id, ".")

\* line 86
derive_model(id, manufacturer) == slice_from(id, Len(manufacturer) + 1)

\* AidotSwitch.__init__, lines 84-96: manufacturer and model of the device info
init_device_info ==
    /\ ~device_info.set
    /\ device_info' =
          LET manufacturer == derive_manufacturer(model_id) IN
          [set |-> TRUE, manufacturer |-> manufacturer,
           model |-> derive_model(model_id, manufacturer)]
    /\ UNCHANGED <<reconciler_vars, switch_vars, cl_result, model_id>>

InitMetadata ==
    /\ device_coordinators = {}
    /\ device_types = NoTypes
    /\ listener = FALSE
    /\ lists_added = {}
    /\ registry = UnrelatedEntries
    /\ platform_entity = NoInstance
    /\ status_fresh_cb = NoInstance
    /\ last_pass = NoPass
    /\ cl_result = "unset"
    /\ model_id \in IdStrings(MaxIdLen)
    /\ device_info = NoInfo
    /\ SwitchIdle

NextMetadata == init_device_info

SpecMetadata == InitMetadata /\ [][NextMetadata]_vars

\* ====================================================================
\* Properties
\* ====================================================================

\* Two characters are the same letter up to case, or the same character.
SameLetter(a, b) ==
    \/ a = b
    \/ \E j \in 1..Len(UpperLetters) :
          {a, b} = {UpperLetters[j], LowerLetters[j]}

\* Some window of s spells the lower-case word w, letter case ignored.
Mentions(s, w) ==
    \E i \in 0..(Len(s) - Len(w)) :
        \A k \in 1..Len(w) : SameLetter(s[i + k], w[k])

\* The rule of the classifier as the documentation states it.
SwitchLike(s) ==
    /\ Mentions(s, W_plug) \/ Mentions(s, W_switch)
    /\ ~Mentions(s, W_light)
    /\ ~Mentions(s, W_bulb)

BoolStr(b) == IF b THEN "True" ELSE "False"

\* C1: for every type string the classifier answers true exactly when the
\* string, letter case ignored, contains "plug" or "switch" and neither
\* "light" nor "bulb"; "Smart Plug" and "switch" give true, "RGB Light Strip"
\* and "" give false.
C1_ClassifierRule ==
    cl_result # "unset" =>
        LET t == device_types_get(device_types, ProbeDevice) IN
        /\ cl_result = BoolStr(SwitchLike(t))
        /\ t = S_SmartPlug => cl_result = "True"
        /\ t = S_switch => cl_result = "True"
        /\ t = S_RGBLightStrip => cl_result = "False"
        /\ t = EmptyStr => cl_result = "False"

\* C1 witness: a mixed-case string with a keyword has been classified true.
C1_Witness ==
    /\ ProbeDevice \in DOMAIN device_types
    /\ device_types[ProbeDevice] = S_SmartPlug
    /\ cl_result = "True"

\* --------------------------------------------------------- reconciler
\* The device ids of the coordinator registry whose type is switch-like now.
QualifyingNow ==
    { d \in device_coordinators :
        d \in DOMAIN device_types /\ SwitchLike(device_types[d]) }

\* The registry entry of the switch entity of device d.
SwitchEntry(d) == RegistryEntry(SWITCH_DOMAIN, const_DOMAIN, d)

\* last_pass.ran holds exactly in the states a run of add_entities leaves;
\* the coordinator registry is then as the pass saw it.

\* C2: after every reconciliation pass the tracked set equals the set of
\* device ids the classifier accepts at that moment.
C2_TrackedEqualsQualifying ==
    last_pass.ran => lists_added = QualifyingNow

\* C3: a pass that runs right after a pass, the coordinator registry
\* unchanged in between, calls async_add_entities zero times, removes no
\* registry entry and leaves the tracked set unchanged.
C3_SecondPassIsNoOp ==
    [][ (last_pass.ran /\ last_pass'.ran) =>
            /\ last_pass'.calls = 0
            /\ last_pass'.removed = {}
            /\ registry' = registry
            /\ lists_added' = lists_added ]_vars

\* C4: a pass constructs and hands over an AidotSwitch exactly for the ids
\* of the qualifying set that are not yet tracked, never for a tracked id.
C4_OnlyNewDevicesConstructed ==
    [][ last_pass'.ran =>
            last_pass'.handed = QualifyingNow \ lists_added ]_vars

C6_StaleRemovedInEveryPass ==
    [][ last_pass'.ran =>
            \A d \in lists_added \ QualifyingNow :
                /\ d \notin lists_added'
                /\ SwitchEntry(d) \notin registry' ]_vars

\* C7: every entity a pass hands to async_add_entities belongs to a device
\* of the coordinator registry whose type is switch-like at that pass; a
\* device with "light" or "bulb" in its type, or with no type entry, gets
\* none.
C7_OnlySwitchLikeExposed ==
    last_pass.ran =>
        /\ last_pass.handed \subseteq QualifyingNow
        /\ \A d \in Devices :
              ( \/ d \notin DOMAIN device_types
                \/ Mentions(device_types_get(device_types, d), W_light)
                \/ Mentions(device_types_get(device_types, d), W_bulb) )
              => d \notin last_pass.handed

\* C7 witness: a pass handed over an entity while a light was present.
C7_Witness ==
    /\ last_pass.ran
    /\ last_pass.handed # {}
    /\ \E d \in device_coordinators \ last_pass.handed :
          d \in DOMAIN device_types /\ device_types[d] = S_RGBLightStrip

\* C9: a device id with no entry in device_types raises nothing and is
\* classified as non-switch; the pass goes on to the other devices.
C9_MissingTypeIsNonSwitch ==
    last_pass.ran =>
        /\ last_pass.error = "none"
        /\ \A d \in device_coordinators \ DOMAIN device_types :
              d \notin last_pass.qualifying /\ d \notin last_pass.handed
        /\ last_pass.qualifying = QualifyingNow

\* C9 witness: a pass with an untyped device present added another device.
C9_Witness ==
    /\ last_pass.ran
    /\ last_pass.error = "none"
    /\ device_coordinators \ DOMAIN device_types # {}
    /\ last_pass.handed # {}

\* ------------------------------------------------------- entity adapter
\* C8: when a turn-on (turn-off) command goes to the device client, the
\* entity's is_on and the coordinator data's on are already True (False),
\* and they are so in the state the suspended handler leaves to other events.
C8_OptimisticBeforeCommand ==
    [][ Len(calls') > Len(calls) =>
            LET c == calls'[Len(calls')] IN
            /\ c.cmd = "turn_on" =>
                  attr_is_on /\ data.on /\ attr_is_on' /\ data'.on
            /\ c.cmd = "turn_off" =>
                  ~attr_is_on /\ ~data.on /\ ~attr_is_on' /\ ~data'.on ]_vars

\* C8 witness: a turn-on command is unresolved and the optimistic value is
\* in place.
C8_Witness ==
    /\ running = "none"
    /\ Len(calls) = 1
    /\ calls[1].cmd = "turn_on"
    /\ calls[1].result = "pending"
    /\ attr_is_on /\ data.on

\* C10: when the device client fails a command, the failure leaves the
\* handler as an exception, no further command is issued, and is_on,
\* available and the coordinator data stay as they were.
C10_FailureNoRollbackNoRetry ==
    [][ \A i \in 1..Len(calls) :
            ( /\ i <= Len(calls')
              /\ calls[i].result = "pending"
              /\ calls'[i].result = "error" )
            => /\ calls'[i].exit = "raised"
               /\ calls'[i].cmd = calls[i].cmd
               /\ Len(calls') = Len(calls)
               /\ \A j \in 1..Len(calls) : j # i => calls'[j] = calls[j]
               /\ attr_is_on' = attr_is_on
               /\ attr_available' = attr_available
               /\ data' = data ]_vars

\* C10 witness: a turn-on command failed and the entity still shows on.
C10_Witness ==
    /\ Len(calls) = 1
    /\ calls[1] = [cmd |-> "turn_on", result |-> "error", exit |-> "raised"]
    /\ attr_is_on /\ data.on

\* C11: right after construction, after every coordinator update and after
\* every push callback, available equals the coordinator data's online and
\* is_on equals its on, whichever of the two update paths ran.
C11_StateMirrorsData ==
    last_event \in {"__init__", "_handle_coordinator_update",
                    "_device_status_callback"}
    => /\ attr_available = data.online
       /\ attr_is_on = data.on

\* C11 witness: a coordinator update delivered after a turn-on command set
\* the entity to available and off, as the data says.
C11_Witness ==
    /\ last_event = "_handle_coordinator_update"
    /\ data = [online |-> TRUE, on |-> FALSE]
    /\ attr_available /\ ~attr_is_on
    /\ Len(calls) = 1 /\ calls[1].cmd = "turn_on"

\* C13: coordinator updates delivered to the entity, push callbacks and
\* turn-on/turn-off commands, also while a command is suspended, leave
\* the tracked set and the entity registry unchanged.
C13_EntityLeavesTrackedSetAlone ==
    [][ lists_added' = lists_added /\ registry' = registry ]_vars

\* C13 witness: with a device tracked and registered, a push callback ran
\* while a command was suspended and another had failed.
C13_Witness ==
    /\ lists_added # {}
    /\ { e \in registry : e.domain = SWITCH_DOMAIN /\ e.platform = const_DOMAIN
                           /\ e.unique_id \in lists_added } # {}
    /\ last_event = "_device_status_callback"
    /\ Len(calls) = 2
    /\ calls[1].result = "error"
    /\ calls[2].result = "pending"

\* C15: whenever another event can run (between handlers and while a
\* command is suspended) is_on equals the on field of the coordinator data,
\* so an update or push callback without new data leaves is_on as it is.
C15_IsOnEqualsDataOn ==
    running = "none" => attr_is_on = data.on

\* C15 witness: a push callback ran while a turn-on command was suspended
\* and the entity still shows on.
C15_Witness ==
    /\ last_event = "_device_status_callback"
    /\ Len(calls) = 1
    /\ calls[1].cmd = "turn_on" /\ calls[1].result = "pending"
    /\ attr_is_on /\ data.on

\* C16: an update or push callback that finds on = False in the coordinator
\* data while a turn-on command is suspended sets is_on to False, and the
\* acknowledgment of a command writes nothing: is_on stays False.
C16_LastWriterWins ==
    [][ /\ ( /\ \E i \in 1..Len(calls) :
                  calls[i].cmd = "turn_on" /\ calls[i].result = "pending"
            /\ last_event' \in {"_handle_coordinator_update",
                                 "_device_status_callback"}
            /\ ~data'.on )
          => ~attr_is_on'
        /\ \A i \in 1..Len(calls) :
              ( /\ i <= Len(calls')
                /\ calls[i].result = "pending"
                /\ calls'[i].result = "ok" )
              => attr_is_on' = attr_is_on /\ data' = data ]_vars

\* C16 witness: a turn-on command was acknowledged and the entity shows off.
C16_Witness ==
    /\ last_event = "command_resolved"
    /\ calls = << [cmd |-> "turn_on", result |-> "ok", exit |-> "returned"] >>
    /\ ~attr_is_on /\ ~data.on

\* ------------------------------------------- reconciler and host platform
\* The unique ids that have a switch entry of this platform in the registry.
RegisteredIds ==
    { e.unique_id : e \in { x \in registry : x.domain = SWITCH_DOMAIN
                                              /\ x.platform = const_DOMAIN } }

C14_SetupRunsFirstPass ==
    [][ (~listener /\ listener') =>
            /\ lists_added = {}
            /\ last_pass'.ran /\ last_pass'.error = "none"
            /\ last_pass'.handed = QualifyingNow
            /\ last_pass'.calls = (IF QualifyingNow = {} THEN 0 ELSE 1)
            /\ last_pass'.removed = {}
            /\ registry \subseteq registry'
            /\ lists_added' = QualifyingNow
            /\ \A d \in Devices :
                  /\ (platform_entity'[d] # 0) = (d \in QualifyingNow)
                  /\ status_fresh_cb'[d] = platform_entity'[d] ]_vars

\* C14 witness: the listener is registered, the pass added the one device
\* that qualifies and none for the light beside it.
C14_Witness ==
    /\ listener
    /\ last_pass.ran
    /\ last_pass.calls = 1
    /\ Cardinality(last_pass.handed) = 1
    /\ lists_added = last_pass.handed
    /\ \A d \in Devices :
          platform_entity[d] = (IF d \in lists_added THEN 1 ELSE 0)
    /\ \E d \in device_coordinators \ lists_added :
          d \in DOMAIN device_types /\ device_types[d] = S_RGBLightStrip

\* C17: the callback stored in each device client's slot belongs to the
\* entity instance the host platform holds for that device.
C17_CallbackOfHeldEntity ==
    \A d \in Devices :
        platform_entity[d] # 0 => status_fresh_cb[d] = platform_entity[d]

\* ------------------------------------------------------- display metadata
\* C19: for a model identifier with a dot, manufacturer is the text before
\* the first dot and model all the text after it, so that manufacturer,
\* a dot and model spell the identifier; without a dot, manufacturer is the
\* whole identifier and model is empty.
C19_SplitAtFirstDot ==
    device_info.set =>
        IF \E i \in 1..Len(model_id) : model_id[i] = "."
        THEN /\ \A i \in 1..Len(device_info.manufacturer) :
                    device_info.manufacturer[i] # "."
             /\ device_info.manufacturer \o <<".">> \o device_info.model = model_id
        ELSE /\ device_info.manufacturer = model_id
             /\ device_info.model = EmptyStr

\* C19 witness: an identifier with two dots was split at the first.
C19_Witness ==
    /\ device_info.set
    /\ model_id = <<"a", ".", "x", ".">>
    /\ device_info.manufacturer = <<"a">>
    /\ device_info.model = <<"x", ".">>

====
